---- MODULE Spec2Model ----
(***************************************************************************)
(* State-machine model of TabularQAgent                                    *)
(* (src/src/hp_problem/agents/tabular_q_simple_rewards.py): the three      *)
(* lazily materialised tables Q, E and N, the counter global_step, and the *)
(* three public operations select_action, update and greedy.               *)
(*                                                                         *)
(* Numbers.  The tables hold float32 values.  They are modelled as exact   *)
(* rationals <<n, d>> (d > 0, lowest terms); <<-1, 0>> stands for -inf,    *)
(* the value np.where substitutes for a masked-out action.  The rewards,   *)
(* alpha, gamma, lam and optimistic_init the model draws are dyadic with   *)
(* small numerators, so without alpha_decay every value a bounded run      *)
(* stores is exactly representable in float32 and the rounding of the      *)
(* store is the identity on it; with alpha_decay the model keeps the       *)
(* exact quotient 1/(1+visits) where the code rounds it.  The epsilon      *)
(* schedule is computed in Python floats (binary64) and is modelled with   *)
(* their rounding, operation by operation.                                 *)
(***************************************************************************)
EXTENDS Integers, Sequences, FiniteSets, TLC

\* ------------------------------------------------------------------ bounds
\* the number of calls made on the agent
MaxCalls == 2
\* the largest value of global_step at which the schedule is evaluated
MaxStep == 12

\* ------------------------------------------------------- the action space
NActions == 2

\* ------------------------------------------------------------- rationals
RECURSIVE GCD(_, _)
GCD(a, b) == IF b = 0 THEN a ELSE GCD(b, a % b)

Abs(x) == IF x < 0 THEN -x ELSE x

Rat(n, d) ==
  LET g == GCD(Abs(n), Abs(d))
      sgn == IF d < 0 THEN -1 ELSE 1
  IN  <<sgn * (n \div g), sgn * (d \div g)>>

NegInf == <<-1, 0>>
Zero == <<0, 1>>
One == <<1, 1>>
Half == <<1, 2>>

IsFinite(x) == x[2] # 0

\* x + y, x - y, x * y on finite values
RAdd(x, y) == Rat(x[1] * y[2] + y[1] * x[2], x[2] * y[2])
RSub(x, y) == Rat(x[1] * y[2] - y[1] * x[2], x[2] * y[2])
RMul(x, y) == Rat(x[1] * y[1], x[2] * y[2])

\* x < y and x <= y; -inf is below every finite value
RLt(x, y) ==
  IF ~IsFinite(y) THEN FALSE
  ELSE IF ~IsFinite(x) THEN TRUE
  ELSE LET g == GCD(x[2], y[2])
       IN  x[1] * (y[2] \div g) < y[1] * (x[2] \div g)
RLe(x, y) == x = y \/ RLt(x, y)

\* the largest element of a non-empty set of values
RMax(S) == CHOOSE m \in S : \A x \in S : RLe(x, m)

\* --------------------------------------------------- binary floating point
\* A Python float is an IEEE 754 double: every operation returns the exact
\* result rounded to Precision significant bits, ties to even.  A value is
\* [neg, m, e], meaning (-1)^neg * m * 2^e, where m is an odd natural number
\* (or zero) written in limbs of LimbBits bits, lowest first.  Exponent
\* overflow, subnormals and the sign of zero are outside the values drawn.
Precision == 53

\* the number of bits of a natural number below 2^31
RECURSIVE BitLen(_)
BitLen(x) == IF x = 0 THEN 0 ELSE 1 + BitLen(x \div 2)

Base == 2 ^ 15
LimbBits == BitLen(Base) - 1

RECURSIVE LTrim(_)
LTrim(a) ==
  IF a = <<>> THEN a
  ELSE IF a[Len(a)] = 0 THEN LTrim(SubSeq(a, 1, Len(a) - 1)) ELSE a

Limb(a, i) == IF i <= Len(a) THEN a[i] ELSE 0

RECURSIVE LAddFrom(_, _, _, _)
LAddFrom(a, b, i, carry) ==
  IF i > Len(a) /\ i > Len(b) THEN (IF carry = 0 THEN <<>> ELSE <<carry>>)
  ELSE LET s == Limb(a, i) + Limb(b, i) + carry
       IN  <<s % Base>> \o LAddFrom(a, b, i + 1, s \div Base)

LAdd(a, b) == LAddFrom(a, b, 1, 0)

RECURSIVE LSubFrom(_, _, _, _)
LSubFrom(a, b, i, borrow) ==
  IF i > Len(a) THEN <<>>
  ELSE LET d == Limb(a, i) - Limb(b, i) - borrow
       IN  <<(d + Base) % Base>> \o LSubFrom(a, b, i + 1, IF d < 0 THEN 1 ELSE 0)

\* a - b, for a >= b
LSub(a, b) == LTrim(LSubFrom(a, b, 1, 0))

LLess(a, b) ==
  IF Len(a) # Len(b) THEN Len(a) < Len(b)
  ELSE \E i \in 1 .. Len(a) :
         a[i] < b[i] /\ \A j \in (i + 1) .. Len(a) : a[j] = b[j]

\* a * k, for a limb k
RECURSIVE LScaleFrom(_, _, _, _)
LScaleFrom(a, k, i, carry) ==
  IF i > Len(a) THEN (IF carry = 0 THEN <<>> ELSE <<carry>>)
  ELSE LET p == a[i] * k + carry
       IN  <<p % Base>> \o LScaleFrom(a, k, i + 1, p \div Base)

LScale(a, k) == LTrim(LScaleFrom(a, k, 1, 0))

\* a * Base^n
LUp(a, n) == IF a = <<>> THEN a ELSE [i \in 1 .. n |-> 0] \o a

RECURSIVE LMulFrom(_, _, _)
LMulFrom(a, b, i) ==
  IF i > Len(b) THEN <<>>
  ELSE LAdd(LUp(LScale(a, b[i]), i - 1), LMulFrom(a, b, i + 1))

LMul(a, b) == LMulFrom(a, b, 1)

\* <<a div d, a mod d>> of the limbs a[1 .. i], for a limb d, given the
\* remainder rem left by the limbs above them
RECURSIVE LDivFrom(_, _, _, _)
LDivFrom(a, i, rem, d) ==
  IF i = 0 THEN <<<<>>, rem>>
  ELSE LET x == rem * Base + a[i]
           below == LDivFrom(a, i - 1, x % d, d)
       IN  <<below[1] \o <<x \div d>>, below[2]>>

LDiv(a, d) ==
  LET qr == LDivFrom(a, Len(a), 0, d) IN <<LTrim(qr[1]), qr[2]>>

\* a * 2^k and a div 2^k
LShl(a, k) == LUp(LScale(a, 2 ^ (k % LimbBits)), k \div LimbBits)
LShr(a, k) ==
  IF k \div LimbBits >= Len(a) THEN <<>>
  ELSE LDiv(SubSeq(a, k \div LimbBits + 1, Len(a)), 2 ^ (k % LimbBits))[1]

\* bit k of a, bit 0 being the lowest
LBit(a, k) == (Limb(a, k \div LimbBits + 1) \div 2 ^ (k % LimbBits)) % 2

\* the number of bits of a
LBitLen(a) == IF a = <<>> THEN 0 ELSE LimbBits * (Len(a) - 1) + BitLen(a[Len(a)])

\* the number of zero bits below the lowest 1 of a # 0: whole limbs, then
\* the bits of the first limb that is not zero
RECURSIVE LowZeroLimbs(_, _)
LowZeroLimbs(a, i) == IF a[i] # 0 THEN i - 1 ELSE LowZeroLimbs(a, i + 1)
RECURSIVE LowZeroBits(_)
LowZeroBits(x) == IF x % 2 = 1 THEN 0 ELSE 1 + LowZeroBits(x \div 2)
LowZeros(a) ==
  LET n == LowZeroLimbs(a, 1) IN LimbBits * n + LowZeroBits(a[n + 1])

RECURSIVE FromNat(_)
FromNat(n) == IF n = 0 THEN <<>> ELSE <<n % Base>> \o FromNat(n \div Base)

FZero == [neg |-> FALSE, m |-> <<>>, e |-> 0]
FOne == [neg |-> FALSE, m |-> <<1>>, e |-> 0]

\* the value (-1)^neg * a * 2^e, with an odd mantissa
Dyadic(neg, a, e) ==
  LET t == LTrim(a)
  IN  IF t = <<>> THEN FZero
      ELSE LET z == LowZeros(t)
           IN  [neg |-> neg, m |-> LShr(t, z), e |-> e + z]

\* the exact sum, difference and product
XAdd(x, y) ==
  IF x.m = <<>> THEN y
  ELSE IF y.m = <<>> THEN x
  ELSE LET lo == IF x.e < y.e THEN x.e ELSE y.e
           mx == LShl(x.m, x.e - lo)
           my == LShl(y.m, y.e - lo)
       IN  IF x.neg = y.neg THEN Dyadic(x.neg, LAdd(mx, my), lo)
           ELSE IF LLess(mx, my) THEN Dyadic(y.neg, LSub(my, mx), lo)
           ELSE Dyadic(x.neg, LSub(mx, my), lo)

XNeg(x) == IF x.m = <<>> THEN x ELSE [x EXCEPT !.neg = ~x.neg]
XSub(x, y) == XAdd(x, XNeg(y))
XMul(x, y) == Dyadic(x.neg # y.neg, LMul(x.m, y.m), x.e + y.e)

\* x < y and x <= y
FLess(x, y) == LET d == XSub(x, y) IN d.neg /\ d.m # <<>>
FLeq(x, y) == ~FLess(y, x)

\* round to nearest, ties to even
Round(x) ==
  IF LBitLen(x.m) <= Precision THEN x
  ELSE LET drop == LBitLen(x.m) - Precision
           kept == LShr(x.m, drop)
           \* the mantissa is odd: below the guard bit, if anything, not all zero
           up == LBit(x.m, drop - 1) = 1 /\ (drop >= 2 \/ LBit(kept, 0) = 1)
       IN  Dyadic(x.neg, IF up THEN LAdd(kept, <<1>>) ELSE kept, x.e + drop)

FAdd(x, y) == Round(XAdd(x, y))
FSub(x, y) == Round(XSub(x, y))
FMul(x, y) == Round(XMul(x, y))

\* n / d of two Python ints (0 <= n, 0 < d < Base): the correctly rounded
\* quotient; a last bit under the quotient's tells of a remainder
FDiv(n, d) ==
  LET qr == LDiv(LShl(FromNat(n), 75), d)
      sticky == IF qr[2] # 0 THEN <<1>> ELSE <<>>
  IN  Round(Dyadic(FALSE, LAdd(LScale(qr[1], 2), sticky), -76))

\* --------------------------------------------------- inputs of the calls
\* An observation is a grid of one-byte cells; two grids are drawn.
Observations == {<<0, 1>>, <<1, 0>>}
Actions == 0 .. (NActions - 1)
\* A valid-action mask is a boolean vector; entry a + 1 belongs to action a.
Masks == [1 .. NActions -> BOOLEAN]
Rewards == {One}

\* np.flatnonzero(valid_mask) and valid_mask.any(), whatever the mask's length
Valid(valid_mask) == {i - 1 : i \in {j \in DOMAIN valid_mask : valid_mask[j]}}
MaskAny(valid_mask) == Valid(valid_mask) # {}

\* whether np.where(valid_mask, row, -np.inf) pairs the mask with a row of
\* NActions >= 2 entries: a mask of that length is paired entry by entry, a
\* mask of length 1 is stretched over the row, any other raises ValueError
Broadcasts(valid_mask) == Len(valid_mask) \in {1, NActions}

\* the mask entry np.where pairs with action a
MaskAt(valid_mask, a) ==
  IF Len(valid_mask) = NActions THEN valid_mask[a + 1] ELSE valid_mask[1]

\* obs.tobytes(): the cells' bytes in order
_state_key(obs) == [i \in 1 .. Len(obs) |-> obs[i] % 256]

StateKeys == {_state_key(o) : o \in Observations}

VARIABLES
  gamma, lam, alpha_decay, exploration, optimistic_init,  \* fixed at construction
  eps_start, eps_end, eps_decay_steps,                    \* fixed at construction
  Q, E, N,            \* the tables: functions from the materialised keys to rows
  global_step,
  call,               \* the last call: its name, arguments, result and, for
                      \* select_action, the return statement that gave it
  selectCalls,        \* number of select_action calls made so far
  updateCalls,        \* per (key, action): number of update calls on that pair
  calls,              \* number of calls of any kind made so far
  eps,                \* <<the last value _epsilon returned>>, <<>> before the first
  sinceActed          \* per (key, action): number of update calls made since the
                      \* last one on that pair, -1 when there was none

config == <<gamma, lam, alpha_decay, exploration, optimistic_init,
            eps_start, eps_end, eps_decay_steps>>
vars == <<gamma, lam, alpha_decay, exploration, optimistic_init,
          eps_start, eps_end, eps_decay_steps,
          Q, E, N, global_step, call, selectCalls, updateCalls, calls, eps,
          sinceActed>>

alpha0 == Half
ucb_c == 1

\* ------------------------------------------------------------ the tables
\* The default factories of the three defaultdicts.
QDefault == [a \in Actions |-> optimistic_init]
EDefault == [a \in Actions |-> Zero]
NDefault == [a \in Actions |-> 0]

EmptyTable == [k \in {} |-> EDefault]

\* table[key] = default: installs the default row over an existing one
TouchOverwrite(table, key, default) ==
  [k \in DOMAIN table \cup {key} |-> IF k = key THEN default ELSE table[k]]

\* table[key] of a defaultdict: a missing key is inserted with the default row
Touch(table, key, default) ==
  IF key \in DOMAIN table THEN table ELSE table @@ (key :> default)

\* what table[key] evaluates to
Row(table, key, default) == IF key \in DOMAIN table THEN table[key] ELSE default

RowValues(row) == {row[a] : a \in Actions}

\* the row itself, no action masked out
MaskedNone(valid_mask, row) == row

\* np.where(valid_mask, row, -np.inf)
Masked(valid_mask, row) ==
  [a \in Actions |-> IF MaskAt(valid_mask, a) THEN row[a] ELSE NegInf]

\* the first index of the largest entry alone
BestFirst(masked) ==
  {a \in Actions : /\ masked[a] = RMax(RowValues(masked))
                   /\ \A b \in Actions : masked[b] = masked[a] => a <= b}

\* np.flatnonzero(masked == masked.max())
Best(masked) == {a \in Actions : masked[a] = RMax(RowValues(masked))}

\* ---------------------------------------------------- the random source
\* A call returns <<value, error>>; error is "" when the call returned.
Raised == <<-1, "ValueError">>
Returned(S) == {<<x, "">> : x \in S}

\* any of 0 .. n, the upper end included
RngIntegersInclusive(n) == IF n >= 0 THEN Returned(0 .. n) ELSE {Raised}

\* rng.integers(n): any of 0 .. n-1
RngIntegers(n) == IF n >= 1 THEN Returned(0 .. (n - 1)) ELSE {Raised}

\* rng.choice(S): any element of S; an empty S raises
RngChoice(S) == IF S = {} THEN {Raised} ELSE Returned(S)

\* ------------------------------------------------------------- schedules
\* min(1.0, global_step / eps_decay_steps), then the linear interpolation,
\* each operation rounded
_epsilon(step) ==
  LET ratio == FDiv(step, eps_decay_steps)
      frac == IF FLess(ratio, FOne) THEN ratio ELSE FOne
  IN  FAdd(eps_start, FMul(frac, FSub(eps_end, eps_start)))

\* the step size read after the visit was counted
_alphaCounted(Ntab, s, a) ==
  IF ~alpha_decay THEN alpha0
  ELSE Rat(1, 2 + Row(Ntab, s, NDefault)[a])

\* the step size of row s for action a
_alpha(Ntab, s, a) ==
  IF ~alpha_decay THEN alpha0
  ELSE Rat(1, 1 + Row(Ntab, s, NDefault)[a])

\* round(10^6 * ln t) for t = 1 .. 8
LnMicro == <<0, 693147, 1098612, 1386294, 1609438, 1791759, 1945910, 2079442>>

\* the integer square root, by bisection of lo .. hi
RECURSIVE Bisect(_, _, _)
Bisect(x, lo, hi) ==
  IF lo = hi THEN lo
  ELSE LET mid == (lo + hi + 1) \div 2
       IN  IF mid * mid <= x THEN Bisect(x, mid, hi) ELSE Bisect(x, lo, mid - 1)

ISqrt(x) == Bisect(x, 0, 2047)

\* ucb_c * sqrt(log(total) / (1e-8 + count)), to three decimals: an unvisited
\* action divides by 1e-8 alone, which multiplies the root by 10^4; for a
\* visited one the 1e-8 is below the resolution kept here.
UcbBonus(total, count) ==
  IF count = 0 THEN Rat(ucb_c * 10000 * ISqrt(LnMicro[total]), 1000)
  ELSE Rat(ucb_c * ISqrt(LnMicro[total] \div count), 1000)

\* -------------------------------------------------------- select_action
\* results <<value, error>> with the return statement they come from
Tagged(S, branch) == {<<out[1], out[2], branch>> : out \in S}

\* the epsilon-greedy branch: the results select_action can return;
\* rng.random() is any float of [0, 1)
EpsOutcomes(q, valid_mask, epsilon) ==
  IF ~MaskAny(valid_mask) THEN Tagged(RngIntegers(NActions), "any")
  ELSE LET best == Best(Masked(valid_mask, q))
           explore == IF FLess(FZero, epsilon) THEN RngChoice(Valid(valid_mask)) ELSE {}
           exploit == IF ~FLess(epsilon, FOne) THEN {}
                      ELSE IF ~Broadcasts(valid_mask) THEN {Raised}
                      ELSE IF best = {} THEN RngChoice(Valid(valid_mask))
                      ELSE RngChoice(best)
       IN  Tagged(explore, "explore") \cup Tagged(exploit, "exploit")

\* the UCB1 branch
UcbOutcomes(q, counts, valid_mask, step) ==
  IF ~MaskAny(valid_mask) THEN RngIntegers(NActions)
  ELSE LET total == IF step > 1 THEN step ELSE 1
           val == [a \in Actions |-> RAdd(q[a], UcbBonus(total, counts[a]))]
           best == Best(Masked(valid_mask, val))
       IN  IF ~Broadcasts(valid_mask) THEN {Raised}
           ELSE IF best = {} THEN RngChoice(Valid(valid_mask))
           ELSE RngChoice(best)

\* the counter left as it is
NoTick(step) == step

\* self.global_step += 1
Tick(step) == step + 1

select_action(obs, valid_mask) ==
  LET key == _state_key(obs)
      Q1 == Touch(Q, key, QDefault)
      q == Q1[key]
      step == Tick(global_step)
      readsN == exploration = "ucb" /\ MaskAny(valid_mask)
      N1 == IF readsN THEN Touch(N, key, NDefault) ELSE N
      epsilon == _epsilon(step)
      outcomes == IF exploration = "eps"
                  THEN EpsOutcomes(q, valid_mask, epsilon)
                  ELSE Tagged(UcbOutcomes(q, Row(N1, key, NDefault), valid_mask, step),
                              "ucb")
  IN  /\ calls < MaxCalls
      /\ calls' = calls + 1
      /\ Q' = Q1
      /\ global_step' = step
      /\ N' = N1
      /\ eps' = IF exploration = "eps" THEN <<epsilon>> ELSE eps
      /\ \E out \in outcomes :
           call' = [op |-> "select_action", obs |-> obs, valid_mask |-> valid_mask,
                    action |-> 0, reward |-> Zero, next_obs |-> obs, done |-> FALSE,
                    ret |-> out[1], err |-> out[2], branch |-> out[3]]
      /\ selectCalls' = selectCalls + 1
      /\ UNCHANGED <<config, E, updateCalls, sinceActed>>

\* ---------------------------------------------------------------- update
\* whether update bootstraps from next_state
Bootstraps(done, next_valid_mask) == ~done /\ MaskAny(next_valid_mask)

\* the target bootstrapped from the largest next value, valid or not
TDTargetUnmasked(Qtab, reward, ns, done, next_valid_mask) ==
  IF Bootstraps(done, next_valid_mask)
  THEN RAdd(reward, RMul(gamma, RMax(RowValues(Row(Qtab, ns, QDefault)))))
  ELSE reward

\* the TD target, Qtab being the action-values when update is entered
TDTarget(Qtab, reward, ns, done, next_valid_mask) ==
  IF Bootstraps(done, next_valid_mask)
  THEN RAdd(reward, RMul(gamma,
         RMax(RowValues(Masked(next_valid_mask, Row(Qtab, ns, QDefault))))))
  ELSE reward

\* target - Q[s][action]
TDError(Qtab, s, action, reward, ns, done, next_valid_mask) ==
  RSub(TDTarget(Qtab, reward, ns, done, next_valid_mask), Row(Qtab, s, QDefault)[action])

\* the traces left as they are
DecayTracesNone(Etab) == Etab

\* the traces decayed by gamma alone
DecayTracesGammaOnly(Etab) ==
  [key \in DOMAIN Etab |-> [a \in Actions |-> RMul(Etab[key][a], gamma)]]

\* for key in list(self.E.keys()): self.E[key] *= self.gamma * self.lam
DecayTraces(Etab) ==
  [key \in DOMAIN Etab |-> [a \in Actions |-> RMul(Etab[key][a], RMul(gamma, lam))]]

\* self.E[s][action] += 1.0: an accumulating trace
SetTraceAccumulate(Etab, s, action) ==
  LET E1 == IF s \in DOMAIN Etab THEN Etab ELSE Etab @@ (s :> EDefault)
  IN  [E1 EXCEPT ![s] = [@ EXCEPT ![action] = RAdd(@, One)]]

\* every other trace cleared before the current one is set
SetTraceReset(Etab, s, action) ==
  [key \in DOMAIN Etab \cup {s} |->
     [a \in Actions |-> IF key = s /\ a = action THEN One ELSE Zero]]

\* self.E[s][action] = 1.0
SetTrace(Etab, s, action) ==
  LET E1 == Touch(Etab, s, EDefault)
  IN  [E1 EXCEPT ![s] = [@ EXCEPT ![action] = One]]

\* the keys whose trace row has a non-zero entry
Credited(Etab) == {key \in DOMAIN Etab : \E a \in Actions : Etab[key][a] # Zero}

\* self.Q[key] += alpha * delta: the whole row, whatever its traces
CreditRowUnmasked(q, e_vec, step_size, delta) ==
  [a \in Actions |-> RAdd(q[a], RMul(step_size, delta))]

\* self.Q[key][nz] += alpha * delta * e_vec[nz]
CreditRow(q, e_vec, step_size, delta) ==
  [a \in Actions |->
     IF e_vec[a] # Zero THEN RAdd(q[a], RMul(RMul(step_size, delta), e_vec[a]))
     ELSE q[a]]

\* the loop over self.E.items(); _alpha(key, action) reads self.N[key]
CreditAll(Qtab, Etab, Ntab, action, delta) ==
  [key \in DOMAIN Qtab \cup Credited(Etab) |->
     IF key \in Credited(Etab)
     THEN CreditRow(Row(Qtab, key, QDefault), Etab[key], _alpha(Ntab, key, action), delta)
     ELSE Qtab[key]]

\* the rows of N the loop materialises by reading them
TouchCredited(Ntab, Etab) ==
  IF ~alpha_decay THEN Ntab
  ELSE [key \in DOMAIN Ntab \cup Credited(Etab) |-> Row(Ntab, key, NDefault)]

\* self.N[s] += 1: every action of the row
CountVisitRow(Ntab, s, action) ==
  LET N1 == IF s \in DOMAIN Ntab THEN Ntab ELSE Ntab @@ (s :> NDefault)
  IN  [N1 EXCEPT ![s] = [a \in Actions |-> @[a] + 1]]

\* self.N[s][action] += 1
CountVisit(Ntab, s, action) ==
  LET N1 == Touch(Ntab, s, NDefault)
  IN  [N1 EXCEPT ![s] = [@ EXCEPT ![action] = @ + 1]]

update(obs, action, reward, next_obs, done, next_valid_mask) ==
  LET s == _state_key(obs)
      ns == _state_key(next_obs)
      Q1 == IF Bootstraps(done, next_valid_mask) THEN Touch(Q, ns, QDefault) ELSE Q
      Q2 == Touch(Q1, s, QDefault)
      delta == TDError(Q, s, action, reward, ns, done, next_valid_mask)
      E2 == SetTrace(DecayTraces(E), s, action)
      N1 == TouchCredited(N, E2)
  IN  /\ calls < MaxCalls
      /\ calls' = calls + 1
      /\ E' = E2
      /\ Q' = CreditAll(Q2, E2, N1, action, delta)
      /\ N' = CountVisit(N1, s, action)
      /\ call' = [op |-> "update", obs |-> obs, valid_mask |-> next_valid_mask,
                  action |-> action, reward |-> reward, next_obs |-> next_obs,
                  done |-> done, ret |-> -1, err |-> "", branch |-> ""]
      /\ updateCalls' = [updateCalls EXCEPT ![s] = [@ EXCEPT ![action] = @ + 1]]
      /\ sinceActed' = [k \in StateKeys |-> [a \in Actions |->
                           IF k = s /\ a = action THEN 0
                           ELSE IF sinceActed[k][a] < 0 THEN -1
                           ELSE sinceActed[k][a] + 1]]
      /\ UNCHANGED <<config, global_step, selectCalls, eps>>

\* ---------------------------------------------------------------- greedy
GreedyOutcomes(q, valid_mask) == RngChoice(Best(Masked(valid_mask, q)))

greedy(obs, valid_mask) ==
  LET key == _state_key(obs)
      Q1 == Touch(Q, key, QDefault)
  IN  /\ calls < MaxCalls
      /\ calls' = calls + 1
      /\ Q' = Q1
      /\ \E out \in GreedyOutcomes(Q1[key], valid_mask) :
           call' = [op |-> "greedy", obs |-> obs, valid_mask |-> valid_mask,
                    action |-> 0, reward |-> Zero, next_obs |-> obs, done |-> FALSE,
                    ret |-> out[1], err |-> out[2], branch |-> ""]
      /\ UNCHANGED <<config, E, N, global_step, selectCalls, updateCalls, eps,
                     sinceActed>>

\* ------------------------------------------------------------ the system
Init ==
  /\ gamma \in {Half, One}
  /\ lam \in {Zero, One}
  /\ alpha_decay \in BOOLEAN
     \* the two users of the visit counts are switched together
  /\ exploration = (IF alpha_decay THEN "ucb" ELSE "eps")
  /\ optimistic_init \in {Half}
  /\ eps_start = FOne
  /\ eps_end = FDiv(1, 20)
  /\ eps_decay_steps \in {2}
  /\ Q = EmptyTable
  /\ E = EmptyTable
  /\ N = EmptyTable
  /\ global_step = 0
  /\ call = [op |-> "init", obs |-> <<0, 1>>, valid_mask |-> [i \in 1 .. NActions |-> FALSE],
             action |-> 0, reward |-> Zero, next_obs |-> <<0, 1>>, done |-> FALSE,
             ret |-> -1, err |-> "", branch |-> ""]
  /\ selectCalls = 0
  /\ updateCalls = [s \in StateKeys |-> [a \in Actions |-> 0]]
  /\ calls = 0
  /\ eps = <<>>
  /\ sinceActed = [s \in StateKeys |-> [a \in Actions |-> -1]]

SelectStep == \E obs \in Observations, valid_mask \in Masks : select_action(obs, valid_mask)

UpdateStep ==
  \E obs \in Observations, action \in Actions, reward \in Rewards,
     next_obs \in Observations, done \in BOOLEAN, next_valid_mask \in Masks :
       update(obs, action, reward, next_obs, done, next_valid_mask)

GreedyStep == \E obs \in Observations, valid_mask \in Masks : greedy(obs, valid_mask)

Next == SelectStep \/ UpdateStep \/ GreedyStep

Spec == Init /\ [][Next]_vars

\* ------------------------------------------- masks of any length
\* select_action takes whatever array the caller passes: the same agent,
\* called with masks shorter and longer than the action space as well.
AnyMasks == UNION {[1 .. n -> BOOLEAN] : n \in 0 .. (NActions + 1)}

SelectAnyMaskStep ==
  \E obs \in Observations, valid_mask \in AnyMasks : select_action(obs, valid_mask)

NextMask == SelectAnyMaskStep \/ UpdateStep \/ GreedyStep

SpecMask == Init /\ [][NextMask]_vars

\* ------------------------------------------------- the schedule on its own
\* _epsilon as a function of the constructor's schedule and of global_step:
\* the agent is built with any of these schedules, and _epsilon is evaluated
\* at every value the counter takes.
EpsStarts == {FOne, FDiv(9, 10), FDiv(1, 2)}
EpsEnds == {FDiv(1, 20), FDiv(1, 10), FDiv(1, 2)}
DecaySteps == {1, 2, 3, 10}

InitEps ==
  /\ gamma = One
  /\ lam = Zero
  /\ alpha_decay = FALSE
  /\ exploration = "eps"
  /\ optimistic_init = Zero
  /\ eps_start \in EpsStarts
  /\ eps_end \in EpsEnds
  /\ eps_decay_steps \in DecaySteps
  /\ Q = EmptyTable
  /\ E = EmptyTable
  /\ N = EmptyTable
  /\ global_step = 0
  /\ call = [op |-> "init", obs |-> <<0, 1>>, valid_mask |-> [i \in 1 .. NActions |-> FALSE],
             action |-> 0, reward |-> Zero, next_obs |-> <<0, 1>>, done |-> FALSE,
             ret |-> -1, err |-> "", branch |-> ""]
  /\ selectCalls = 0
  /\ updateCalls = [s \in StateKeys |-> [a \in Actions |-> 0]]
  /\ calls = 0
  /\ eps = <<>>
  /\ sinceActed = [s \in StateKeys |-> [a \in Actions |-> -1]]

\* eps = self._epsilon()
EpsilonCall ==
  /\ eps = <<>>
  /\ eps' = <<_epsilon(global_step)>>
  /\ UNCHANGED <<config, Q, E, N, global_step, call, selectCalls, updateCalls, calls,
                 sinceActed>>

\* self.global_step += 1
TickStep ==
  /\ eps # <<>>
  /\ global_step < MaxStep
  /\ global_step' = Tick(global_step)
  /\ eps' = <<>>
  /\ UNCHANGED <<config, Q, E, N, call, selectCalls, updateCalls, calls, sinceActed>>

NextEps == EpsilonCall \/ TickStep

SpecEps == InitEps /\ [][NextEps]_vars

\* ============================================================ properties
\* what a table reads as at (s, a), materialised or not
QVal(Qtab, s, a) == Row(Qtab, s, QDefault)[a]
TraceVal(Etab, s, a) == Row(Etab, s, EDefault)[a]
Visits(Ntab, s, a) == Row(Ntab, s, NDefault)[a]

\* the pair and the transition of the last call
CallKey == _state_key(call.obs)
CallNextKey == _state_key(call.next_obs)
IsUpdate == call.op = "update"
IsSelect == call.op = "select_action"
IsGreedy == call.op = "greedy"

\* the one-step Q-learning target of a transition, from the values Qtab
QLearningTarget(Qtab, reward, ns, done, next_valid_mask) ==
  LET valid == {b \in Actions : next_valid_mask[b + 1]}
  IN  IF done \/ valid = {} THEN reward
      ELSE RAdd(reward, RMul(gamma, RMax({QVal(Qtab, ns, b) : b \in valid})))

\* the step size of the pair (s, a) that triggers an update
StepSize(Ntab, s, a) == IF alpha_decay THEN Rat(1, 1 + Visits(Ntab, s, a)) ELSE alpha0

\* the pairs some update call has acted upon
Acted(counts) == {p \in StateKeys \X Actions : counts[p[1]][p[2]] > 0}

\* C1: with lam = 0 an update changes Q(state, action) alone, to
\* Q_old + step * (target - Q_old) with the one-step Q-learning target; every
\* other entry of every row, rows that carried a trace included, is unchanged.
C1_PlainQLearning ==
  [][(lam = Zero /\ IsUpdate') =>
       LET s == CallKey'
           a == call'.action
           target == QLearningTarget(Q, call'.reward, CallNextKey', call'.done,
                                     call'.valid_mask)
           old == QVal(Q, s, a)
           new == RAdd(old, RMul(StepSize(N, s, a), RSub(target, old)))
       IN  \A k \in StateKeys, b \in Actions :
             QVal(Q', k, b) = IF k = s /\ b = a THEN new ELSE QVal(Q, k, b)]_vars

\* an update with lam = 0 moved Q(state, action) while another state, acted
\* upon by the call before, had carried a trace
C1_Witness ==
  /\ lam = Zero /\ IsUpdate /\ calls = 2
  /\ QVal(Q, CallKey, call.action) # optimistic_init
  /\ \E k \in StateKeys \ {CallKey}, b \in Actions :
       updateCalls[k][b] = 1 /\ QVal(Q, k, b) # optimistic_init

\* C2: with alpha_decay and lam > 0, one update applies to every credited row
\* the same step size 1 / (1 + VisitCount(state, action)), taken from the pair
\* that triggered the update and not from the row being updated.
C2_SingleStepSize ==
  [][(alpha_decay /\ lam # Zero /\ IsUpdate') =>
       LET s == CallKey'
           a == call'.action
           target == QLearningTarget(Q, call'.reward, CallNextKey', call'.done,
                                     call'.valid_mask)
           delta == RSub(target, QVal(Q, s, a))
           step == Rat(1, 1 + Visits(N, s, a))
       IN  \A k \in StateKeys, b \in Actions :
             TraceVal(E', k, b) # Zero =>
               QVal(Q', k, b) =
                 RAdd(QVal(Q, k, b), RMul(RMul(step, delta), TraceVal(E', k, b)))]_vars

\* C3: an update adds exactly 1 to the visit count of the acted-upon pair and
\* leaves every other count alone; select_action and greedy change none; so
\* every count equals the number of update calls made on its pair.
C3_VisitCounts ==
  [][/\ \A k \in StateKeys, b \in Actions :
          Visits(N', k, b) =
            IF IsUpdate' /\ k = CallKey' /\ b = call'.action
            THEN Visits(N, k, b) + 1 ELSE Visits(N, k, b)
     /\ \A k \in StateKeys, b \in Actions : Visits(N', k, b) = updateCalls'[k][b]]_vars

\* the same pair was updated twice, a row of counts having been read in between
C3_Witness ==
  /\ IsUpdate /\ Visits(N, CallKey, call.action) = 2
  /\ \E b \in Actions : Visits(N, CallKey, b) = 0

\* C4: GlobalStep starts at 0, grows by exactly 1 on every select_action call
\* under both strategies, also with no valid action, is unchanged by update
\* and greedy, and so equals the number of select_action calls made.
C4_GlobalStep ==
  [][/\ calls = 0 => global_step = 0
     /\ IsSelect' => global_step' = global_step + 1
     /\ (IsUpdate' \/ IsGreedy') => global_step' = global_step
     /\ global_step' = selectCalls']_vars

\* a second select_action call, made with no valid action
C4_Witness ==
  /\ IsSelect /\ ~MaskAny(call.valid_mask) /\ global_step = 2

\* C5 as stated: a greedy call changes nothing, not even which states have a
\* materialised row in the three tables.
C5_GreedyChangesNothing ==
  [][IsGreedy' => (global_step' = global_step /\ E' = E /\ N' = N /\ Q' = Q)]_vars

\* C5 as amended: a greedy call leaves GlobalStep, the trace table, the
\* visit-count table and every action-value unchanged; the action-value table
\* keeps its rows and gains at most the row of the observed state.
C5_GreedyReadOnly ==
  [][IsGreedy' =>
       /\ global_step' = global_step /\ E' = E /\ N' = N
       /\ \A k \in StateKeys, b \in Actions : QVal(Q', k, b) = QVal(Q, k, b)
       /\ \A k \in DOMAIN Q : Q'[k] = Q[k]
       /\ DOMAIN Q' = DOMAIN Q \cup {CallKey'}]_vars

\* greedy ran on a state whose action-values an update had changed
C5_Witness ==
  /\ IsGreedy
  /\ \E b \in Actions : updateCalls[CallKey][b] = 1 /\ QVal(Q, CallKey, b) # optimistic_init

\* C6: for gamma and lambda in [0, 1], after every update every trace lies in
\* [0, 1] and the trace of the acted-upon pair is exactly 1 (it is replaced,
\* not accumulated).
C6_TraceRange ==
  IsUpdate =>
    /\ \A k \in StateKeys, b \in Actions :
         RLe(Zero, TraceVal(E, k, b)) /\ RLe(TraceVal(E, k, b), One)
    /\ TraceVal(E, CallKey, call.action) = One

\* the same pair was updated twice in a row while its trace had not decayed
\* to nothing
C6_Witness ==
  /\ IsUpdate /\ updateCalls[CallKey][call.action] = 2
  /\ RMul(gamma, lam) # Zero

\* C7: Q(s, a) equals optimistic_init at every pair that was never the
\* acted-upon pair of an update, whatever calls were made.
C7_OptimisticInit ==
  \A k \in StateKeys, b \in Actions :
    updateCalls[k][b] = 0 => QVal(Q, k, b) = optimistic_init

\* an update moved the value of its pair in a row whose other action was
\* never acted upon, a trace of another state being credited too
C7_Witness ==
  /\ IsUpdate /\ calls = 2
  /\ QVal(Q, CallKey, call.action) # optimistic_init
  /\ \E b \in Actions : updateCalls[CallKey][b] = 0
  /\ \E k \in StateKeys \ {CallKey}, b \in Actions : TraceVal(E, k, b) # Zero

\* C8: greedy with at least one valid action returns a valid action, and one
\* whose action-value is the largest among the valid actions.
C8_GreedyValid ==
  (IsGreedy /\ MaskAny(call.valid_mask)) =>
    /\ call.err = ""
    /\ call.ret \in Valid(call.valid_mask)
    /\ \A b \in Valid(call.valid_mask) :
         RLe(QVal(Q, CallKey, b), QVal(Q, CallKey, call.ret))

\* greedy returned a valid action although an invalid one had a larger value
C8_Witness ==
  /\ IsGreedy /\ MaskAny(call.valid_mask)
  /\ \E b \in Actions \ Valid(call.valid_mask) :
       RLt(QVal(Q, CallKey, call.ret), QVal(Q, CallKey, b))

\* C9: select_action with no valid action returns an index in [0, n_actions)
\* and raises nothing, under both strategies.
C9_NoValidAction ==
  (IsSelect /\ ~MaskAny(call.valid_mask)) =>
    (call.err = "" /\ call.ret \in Actions)

\* under UCB, select_action got no valid action at a state already updated
C9_Witness ==
  /\ IsSelect /\ ~MaskAny(call.valid_mask) /\ exploration = "ucb"
  /\ \E b \in Actions : updateCalls[CallKey][b] = 1

\* C10: with lam = 1, gamma = 1 and a fixed step size, an update adds the same
\* alpha * delta to Q of its pair and of every pair an earlier update acted
\* upon, each of these traces being exactly 1; no other value moves.
C10_FullCredit ==
  [][(lam = One /\ gamma = One /\ ~alpha_decay /\ IsUpdate') =>
       LET s == CallKey'
           a == call'.action
           target == QLearningTarget(Q, call'.reward, CallNextKey', call'.done,
                                     call'.valid_mask)
           amount == RMul(alpha0, RSub(target, QVal(Q, s, a)))
       IN  \A p \in StateKeys \X Actions :
             IF p \in Acted(updateCalls')
             THEN /\ TraceVal(E', p[1], p[2]) = One
                  /\ QVal(Q', p[1], p[2]) = RAdd(QVal(Q, p[1], p[2]), amount)
             ELSE QVal(Q', p[1], p[2]) = QVal(Q, p[1], p[2])]_vars

\* the second update credited the pair of the first: its value is above 1,
\* which its own update (a target of at most 3/2, from 1/2) cannot reach
C10_Witness ==
  /\ lam = One /\ gamma = One /\ ~alpha_decay /\ IsUpdate /\ calls = 2
  /\ QVal(Q, CallKey, call.action) # optimistic_init
  /\ \E p \in Acted(updateCalls) \ {<<CallKey, call.action>>} :
       RLt(One, QVal(Q, p[1], p[2]))

\* the three parts of the statement about the schedule
EpsAtStart == (eps # <<>> /\ global_step = 0) => eps[1] = eps_start
EpsAtEnd == (eps # <<>> /\ global_step >= eps_decay_steps) => eps[1] = eps_end
EpsNonIncreasing ==
  (eps # <<>> /\ global_step > 0 /\ FLess(eps_end, eps_start))
    => FLeq(eps[1], _epsilon(global_step - 1))

\* C11: epsilon(t) = eps_start + min(1, t / eps_decay_steps) * (eps_end -
\* eps_start) equals eps_start at t = 0, equals eps_end at t = eps_decay_steps
\* and at every later t, and never increases with t when eps_end < eps_start.
C11_EpsilonSchedule == EpsAtStart /\ EpsAtEnd /\ EpsNonIncreasing

\* the schedule evaluated at its last step, the default one: 1.0 down to 0.05
C11_Witness ==
  /\ eps # <<>> /\ global_step = eps_decay_steps
  /\ eps_start = FOne /\ eps_end = FDiv(1, 20)

\* C12: greedy called with a mask that has no true entry fails with an
\* InvalidState error instead of returning an action index.
C12_GreedyNoValidFails ==
  (IsGreedy /\ ~MaskAny(call.valid_mask)) => call.err = "InvalidState"

\* C13: select_action called with a mask whose length differs from n_actions
\* reports an error to the caller and returns no action.
C13_MaskLengthRejected ==
  (IsSelect /\ Len(call.valid_mask) # NActions) => call.err # ""

\* C14: update moves Q(state, action) by step * (target - Q(state, action)),
\* target and Q(state, action) both read from the table as it was when update
\* was entered: target = reward when done or when no next action is valid,
\* else reward + gamma * the largest value of a valid next action; the same
\* when next_state is state.
C14_TDError ==
  [][IsUpdate' =>
       LET s == CallKey'
           a == call'.action
           target == QLearningTarget(Q, call'.reward, CallNextKey', call'.done,
                                     call'.valid_mask)
           old == QVal(Q, s, a)
       IN  QVal(Q', s, a) = RAdd(old, RMul(StepSize(N, s, a), RSub(target, old)))]_vars

\* an update whose next_state is state has bootstrapped from a valid action,
\* the one it acted upon, while an action that is not valid there holds a
\* larger value than every valid one
C14_Witness ==
  /\ IsUpdate /\ CallKey = CallNextKey
  /\ ~call.done /\ call.action \in Valid(call.valid_mask)
  /\ \E b \in Actions \ Valid(call.valid_mask) :
        \A c \in Valid(call.valid_mask) :
          RLt(QVal(Q, CallKey, c), QVal(Q, CallKey, b))

\* x^k for a natural number k
RECURSIVE RPow(_, _)
RPow(x, k) == IF k = 0 THEN One ELSE RMul(x, RPow(x, k - 1))

\* C15: the trace of a pair (s, a) is (gamma * lam)^k, k the number of update
\* calls made since the most recent update that acted upon (s, a), and 0 when
\* no update acted upon it: every update decays every row, whatever the state
\* of its transition, and an update with done = true clears nothing.
C15_TraceClosedForm ==
  \A s \in StateKeys, a \in Actions :
    TraceVal(E, s, a) = IF sinceActed[s][a] < 0 THEN Zero
                        ELSE RPow(RMul(gamma, lam), sinceActed[s][a])

\* an update with done = true acted upon one state, and a pair of another
\* state, acted upon by the update before it, still carries a trace: gamma * lam
C15_Witness ==
  /\ IsUpdate /\ call.done
  /\ \E s \in StateKeys \ {CallKey}, a \in Actions :
        /\ sinceActed[s][a] = 1
        /\ TraceVal(E, s, a) = RMul(gamma, lam)
        /\ RLt(Zero, TraceVal(E, s, a)) /\ RLt(TraceVal(E, s, a), One)

\* C16: with alpha_decay, update moves Q(state, action) with the step size
\* 1 / (1 + n), n being the number of earlier update calls on that pair, which
\* is its visit count when update is entered; the first update of a pair
\* sets Q(state, action) to the TD target; the visit is counted once the
\* action-values have been updated.
C16_StepBeforeIncrement ==
  [][(alpha_decay /\ IsUpdate') =>
       LET s == CallKey'
           a == call'.action
           n == updateCalls[s][a]
           target == QLearningTarget(Q, call'.reward, CallNextKey', call'.done,
                                     call'.valid_mask)
           old == QVal(Q, s, a)
       IN  /\ Visits(N, s, a) = n
           /\ QVal(Q', s, a) = RAdd(old, RMul(Rat(1, 1 + n), RSub(target, old)))
           /\ n = 0 => QVal(Q', s, a) = target
           /\ Visits(N', s, a) = n + 1]_vars

\* the second update of a pair, with step size 1/2, has left its value off
\* the reward it was given
C16_Witness ==
  /\ alpha_decay /\ IsUpdate /\ call.done
  /\ updateCalls[CallKey][call.action] = 2
  /\ Visits(N, CallKey, call.action) = 2
  /\ QVal(Q, CallKey, call.action) # call.reward

\* the valid actions whose value in row q is the largest among the valid
ValidMaximizers(q, valid_mask) ==
  {a \in Valid(valid_mask) : \A b \in Valid(valid_mask) : RLe(q[b], q[a])}

\* C17: with epsilon-greedy exploration and a mask with a valid action,
\* select_action returns a valid action; the exploring branch can return
\* every valid action; the other branch returns a valid action of largest
\* value among the valid ones, and can return every such action.
C17_EpsGreedy ==
  exploration = "eps" =>
    /\ (IsSelect /\ MaskAny(call.valid_mask)) =>
          /\ call.err = "" /\ call.ret \in Valid(call.valid_mask)
          /\ call.branch \in {"explore", "exploit"}
          /\ call.branch = "exploit" =>
                call.ret \in ValidMaximizers(Q[CallKey], call.valid_mask)
    /\ LET epsilon == _epsilon(Tick(global_step))
            explores == FLess(FZero, epsilon)
            exploits == FLess(epsilon, FOne)
        IN  \A obs \in Observations, valid_mask \in Masks :
              MaskAny(valid_mask) =>
                LET q == Row(Q, _state_key(obs), QDefault)
                    outcomes == EpsOutcomes(q, valid_mask, epsilon)
                IN  /\ explores =>
                          \A a \in Valid(valid_mask) : <<a, "", "explore">> \in outcomes
                    /\ exploits =>
                          \A a \in ValidMaximizers(q, valid_mask) :
                            <<a, "", "exploit">> \in outcomes

\* the exploring branch returned a valid action that is not of largest value
C17_WitnessExplore ==
  /\ IsSelect /\ call.branch = "explore"
  /\ call.ret \in Valid(call.valid_mask)
  /\ call.ret \notin ValidMaximizers(Q[CallKey], call.valid_mask)

\* the other branch returned the second of two valid actions of equal value
C17_Witness ==
  /\ IsSelect /\ call.branch = "exploit"
  /\ ValidMaximizers(Q[CallKey], call.valid_mask) = Actions
  /\ call.ret = NActions - 1

\* the statement about the UCB1 bonus, for the select_action call just made:
\* an action never visited at the observed state has a strictly larger bonus
\* than a visited one, and the action returned is a never-visited one when a
\* valid one exists (no value of the model exceeds another by the gap
\* between the two bonuses)
UcbPrefersUnvisited ==
  LET total == IF global_step > 1 THEN global_step ELSE 1
      count == [a \in Actions |-> Visits(N, CallKey, a)]
      fresh == {a \in Valid(call.valid_mask) : count[a] = 0}
  IN  /\ \A a, b \in Actions :
            (count[a] = 0 /\ count[b] >= 1) =>
              RLt(UcbBonus(total, count[b]), UcbBonus(total, count[a]))
      /\ fresh # {} => (call.err = "" /\ call.ret \in fresh)

\* C18: under UCB1 every select_action call with a valid action, the first
\* one included, gives an action never visited at the observed state a
\* strictly larger bonus than a visited one, and so prefers a valid
\* never-visited action.
C18_UcbUnvisitedFirst ==
  (exploration = "ucb" /\ IsSelect /\ MaskAny(call.valid_mask)) => UcbPrefersUnvisited

\* the same from the second select_action call on
UcbUnvisitedFromSecond ==
  (exploration = "ucb" /\ IsSelect /\ MaskAny(call.valid_mask) /\ global_step >= 2)
    => UcbPrefersUnvisited

====
